---- MODULE Spec2Model ----
(***************************************************************************)
(* Model of openfpga/src/fpga_bitstream/write_text_fabric_bitstream.cpp:   *)
(* one call of write_fabric_bitstream_to_text_file, from the file-name     *)
(* check to the return, with the four text encoders it dispatches to.      *)
(*                                                                         *)
(* The destination is a sequence of one-character strings ("0", "1", " ",  *)
(* "\n").  The stream fp is (fp_open, fp_good, buf): fp << value appends to *)
(* the stream's buffer buf and cannot fail by itself; std::endl appends    *)
(* the terminator and flushes the buffer to the destination, and it is the *)
(* flush that a failing device turns into a bad stream.  The device takes  *)
(* a prefix of what is flushed; when it refuses the rest the stream is bad *)
(* and keeps the whole flushed text.  A bad stream ignores every write and *)
(* every later flush, but fp.close() offers the text it kept to the device *)
(* once more.  The bit sources of the model stay far below the size of the *)
(* stream buffer, so the buffer never overflows between two flushes.       *)
(***************************************************************************)
EXTENDS Integers, Sequences, FiniteSets, TLC

(* ------------------------------ bounds -------------------------------- *)

\* longest bit source of a standalone, scan-chain or unrecognized device
MaxBits == 5
\* largest number of scan-chain regions
MaxRegions == 2
\* longest bit source of a memory-bank or frame-based device
MaxAddrBits == 3

(* ------------------------------ inputs -------------------------------- *)

\* e_config_protocol_type; NUM_CONFIG_PROTOCOL_TYPES stands for any value
\* outside the four protocols (the default arm of both switches)
ProtocolTypes ==
  {"CONFIG_MEM_STANDALONE", "CONFIG_MEM_SCAN_CHAIN", "CONFIG_MEM_MEMORY_BANK",
   "CONFIG_MEM_FRAME_BASED", "NUM_CONFIG_PROTOCOL_TYPES"}

\* the four protocols the serializer knows
ValidTypes ==
  {"CONFIG_MEM_STANDALONE", "CONFIG_MEM_SCAN_CHAIN", "CONFIG_MEM_MEMORY_BANK",
   "CONFIG_MEM_FRAME_BASED"}

\* an absent address annotation
NoAddr == <<>>

\* bit-line, word-line and frame addresses: '0'/'1' strings of one width
BLAddrs == {<<"0", "1">>, <<"1", "0">>}
WLAddrs == {<<"1", "0">>, <<"1", "1">>}
FrameAddrs == {<<"1", "0", "1">>, <<"0", "1", "0">>}

\* the file names the call is tried with: the empty name and a usable one
FileNames == {"", "fabric_bitstream.txt"}

\* what the destination may hold before the call
PreviousContents == {<<>>, <<"1", "\n">>}

\* the configuration bits a device of the given protocol carries: a value
\* and the address annotations of that protocol
ConfigBits(type, nregions) ==
  CASE type = "CONFIG_MEM_SCAN_CHAIN" ->
         [value : BOOLEAN, bl : {NoAddr}, wl : {NoAddr}, addr : {NoAddr},
          region : 1..nregions]
    [] type = "CONFIG_MEM_MEMORY_BANK" ->
         [value : BOOLEAN, bl : BLAddrs, wl : WLAddrs, addr : {NoAddr},
          region : {1}]
    [] type = "CONFIG_MEM_FRAME_BASED" ->
         [value : BOOLEAN, bl : {NoAddr}, wl : {NoAddr}, addr : FrameAddrs,
          region : {1}]
    [] OTHER ->
         [value : BOOLEAN, bl : {NoAddr}, wl : {NoAddr}, addr : {NoAddr},
          region : {1}]

BitBound(type) ==
  IF type \in {"CONFIG_MEM_MEMORY_BANK", "CONFIG_MEM_FRAME_BASED"}
  THEN MaxAddrBits ELSE MaxBits

\* every bit source of the given protocol within the bounds.  The source is
\* read region by region (regions(), region_bits(region)) wherever regions
\* matter, so it is listed that way: the bits of region 1, then of region 2,
\* and so on, each region's bits in their own order
BitSources(type, nregions) ==
  {bs \in UNION {[1..n -> ConfigBits(type, nregions)] :
                  n \in 0..BitBound(type)} :
     \A i \in 1..(Len(bs) - 1) : bs[i].region <= bs[i + 1].region}

VARIABLES
  config_type,   \* config_protocol.type()
  bits,          \* fabric_bitstream.bits(), in source order
  num_regions,   \* fabric_bitstream.regions().size()
  fname,         \* the destination name
  file,          \* the content of the destination
  fp_open,       \* fp.is_open()
  fp_good,       \* fp.good()
  buf,           \* what fp has buffered and not yet flushed
  pc,            \* position of the call
  status,        \* status of write_fabric_bitstream_to_text_file
  enc_status,    \* status of write_flatten_fabric_bitstream_to_text_file
  ibit,          \* number of bits the flatten loop has visited
  encoders_run,  \* the encoders called so far, in call order
  errors,        \* the error messages logged so far
  oob            \* a regional bitstream was read past its end

vars == <<config_type, bits, num_regions, fname, file, fp_open, fp_good, buf,
          pc, status, enc_status, ibit, encoders_run, errors, oob>>

inputs == <<config_type, bits, num_regions, fname>>

(* --------------------- the bit source's accessors --------------------- *)

\* bitstream_manager.bit_value(fabric_bitstream.config_bit(fabric_bit))
bit_value(bit) == bit.value

bit_bl_address(bit) == bit.bl

bit_wl_address(bit) == bit.wl

bit_address(bit) == bit.addr

\* fabric_bitstream.region_bits(region): the region's bits in source order
region_bits(bs, region) == SelectSeq(bs, LAMBDA b : b.region = region)

\* operator<< of a bool on a stream without boolalpha
BoolDigit(b) == IF b THEN "1" ELSE "0"

(* ------------------------------ streams ------------------------------- *)

\* valid_file_stream(fp): the stream is open and in a good state
valid_file_stream(is_open, is_good) == is_open /\ is_good

\* check_file_stream(fname, fp): TRUE when the call may go on; a destination
\* that could not be opened is fatal and ends the call there
check_file_stream(is_open, is_good) == valid_file_stream(is_open, is_good)

\* fp << text: appended to the stream's buffer when the stream is usable,
\* dropped otherwise
Put(buffer, is_open, is_good, text) ==
  IF is_open /\ is_good THEN buffer \o text ELSE buffer

\* how many of the pending characters a flush may bring to the destination:
\* any number of them on a usable stream (fewer than all when the device
\* refuses the rest), none on a bad or closed one
Accepted(is_open, is_good, pending) ==
  IF is_open /\ is_good THEN 0..Len(pending) ELSE {0}

\* what the stream keeps of a text flushed line by line of which the device
\* took the first n characters: nothing when it took them all, otherwise
\* the whole line whose flush was refused
Retained(pending, n) ==
  IF n >= Len(pending) THEN <<>>
  ELSE LET starts == {i \in 1..n : pending[i] = "\n"}
           ends == {i \in (n + 1)..Len(pending) : pending[i] = "\n"}
           first == IF starts = {} THEN 1
                    ELSE (CHOOSE i \in starts : \A j \in starts : j <= i) + 1
           last == IF ends = {} THEN Len(pending)
                   ELSE CHOOSE i \in ends : \A j \in ends : i <= j
       IN SubSeq(pending, first, last)

\* write_space_to_file(fp, n)
write_space_to_file(n) == [i \in 1..n |-> " "]

(* -------------------- regions and address groups ---------------------- *)

Max(a, b) == IF a >= b THEN a ELSE b

RECURSIVE MaxRegionSize(_, _)
MaxRegionSize(bs, region) ==
  IF region = 0 THEN 0
  ELSE Max(Len(region_bits(bs, region)), MaxRegionSize(bs, region - 1))

\* find_fabric_regional_bitstream_max_size: the length of the longest region
find_fabric_regional_bitstream_max_size(bs, nregions) ==
  MaxRegionSize(bs, nregions)

\* the values of one region, padded at the tail with the filler bit 0 up to
\* the common length
regional_bitstream(bs, region, max_size) ==
  LET own == region_bits(bs, region)
  IN [i \in 1..max_size |->
        IF i <= Len(own) THEN bit_value(own[i]) ELSE FALSE]

\* build_config_chain_fabric_bitstream_by_region: one padded bitstream per
\* region, regions in their source order
build_config_chain_fabric_bitstream_by_region(bs, nregions) ==
  LET max_size == find_fabric_regional_bitstream_max_size(bs, nregions)
  IN [region \in 1..nregions |-> regional_bitstream(bs, region, max_size)]

\* the position of the group keyed by key, 0 when there is none
GroupIndex(groups, key) ==
  IF \E n \in 1..Len(groups) : groups[n].key = key
  THEN CHOOSE n \in 1..Len(groups) : groups[n].key = key
  ELSE 0

\* append one value to the group of its key, creating the group (at the
\* end) on first encounter
AddToGroup(groups, key, value) ==
  LET n == GroupIndex(groups, key)
  IN IF n = 0
     THEN Append(groups, [key |-> key, din |-> <<value>>])
     ELSE [groups EXCEPT ![n].din = Append(@, value)]

RECURSIVE GroupBits(_, _, _)
GroupBits(bs, i, kind) ==
  IF i = 0 THEN <<>>
  ELSE AddToGroup(GroupBits(bs, i - 1, kind),
                  IF kind = "bank"
                  THEN <<bit_bl_address(bs[i]), bit_wl_address(bs[i])>>
                  ELSE bit_address(bs[i]),
                  bit_value(bs[i]))

\* build_memory_bank_fabric_bitstream_by_address: (BL, WL) -> data vector,
\* groups in first-encountered order
build_memory_bank_fabric_bitstream_by_address(bs) ==
  GroupBits(bs, Len(bs), "bank")

\* build_frame_based_fabric_bitstream_by_address: address -> data vector,
\* groups in first-encountered order
build_frame_based_fabric_bitstream_by_address(bs) ==
  GroupBits(bs, Len(bs), "frame")

(* ---------------------------- the encoders ---------------------------- *)

\* the per-bit writer ending every bit's text with a line terminator, as its
\* addressed arms do
write_fabric_config_bit_to_text_file_PerBitLine(is_open, is_good, bit, type) ==
  IF ~valid_file_stream(is_open, is_good)
  THEN [status |-> 1, text |-> <<>>, logged |-> <<>>]
  ELSE IF type \in ValidTypes
       THEN [status |-> 0, text |-> <<BoolDigit(bit_value(bit)), "\n">>,
             logged |-> <<>>]
       ELSE [status |-> 1, text |-> <<>>,
             logged |-> <<"invalid_protocol_type">>]

\* write_fabric_config_bit_to_text_file: the status, the text and the
\* logged errors of one bit; the default arm logs the invalid protocol type
write_fabric_config_bit_to_text_file(is_open, is_good, bit, type) ==
  IF ~valid_file_stream(is_open, is_good)
  THEN [status |-> 1, text |-> <<>>, logged |-> <<>>]
  ELSE CASE type \in {"CONFIG_MEM_STANDALONE", "CONFIG_MEM_SCAN_CHAIN"} ->
              [status |-> 0, text |-> <<BoolDigit(bit_value(bit))>>,
               logged |-> <<>>]
         [] type = "CONFIG_MEM_MEMORY_BANK" ->
              [status |-> 0,
               text |-> bit_bl_address(bit) \o write_space_to_file(1)
                        \o bit_wl_address(bit) \o write_space_to_file(1)
                        \o <<BoolDigit(bit_value(bit))>> \o <<"\n">>,
               logged |-> <<>>]
         [] type = "CONFIG_MEM_FRAME_BASED" ->
              [status |-> 0,
               text |-> bit_address(bit) \o write_space_to_file(1)
                        \o <<BoolDigit(bit_value(bit))>> \o <<"\n">>,
               logged |-> <<>>]
         [] OTHER -> [status |-> 1, text |-> <<>>,
                      logged |-> <<"invalid_protocol_type">>]

\* the character an out-of-range read of a regional bitstream leaves in the
\* text: its value is not determined by the program
Indeterminate == "?"

\* fp << region_bitstream[ibit] (ibit counts from 0)
region_bitstream_read(region_bitstream, i) ==
  IF i < Len(region_bitstream)
  THEN BoolDigit(region_bitstream[i + 1])
  ELSE Indeterminate

\* the inner loop writing a space after every region's character
ChainLineText_Separated(regional_bitstreams, i) ==
  [c \in 1..(2 * Len(regional_bitstreams)) |->
     IF c % 2 = 1
     THEN region_bitstream_read(regional_bitstreams[(c + 1) \div 2], i)
     ELSE " "] \o <<"\n">>

\* one pass of the inner loop and the std::endl after it
ChainLineText(regional_bitstreams, i) ==
  [r \in 1..Len(regional_bitstreams) |->
     region_bitstream_read(regional_bitstreams[r], i)] \o <<"\n">>

RECURSIVE ChainTextFrom(_, _, _)
ChainTextFrom(regional_bitstreams, max_size, i) ==
  IF i < max_size
  THEN ChainLineText(regional_bitstreams, i)
       \o ChainTextFrom(regional_bitstreams, max_size, i + 1)
  ELSE <<>>

\* the outer loop stopping one depth early (ibit + 1 < max size)
ChainText_StopsEarly(regional_bitstreams, max_size) ==
  ChainTextFrom(regional_bitstreams, max_size - 1, 0)

\* the outer loop: ibit from 0 while ibit < regional_bitstream_max_size
ChainText(regional_bitstreams, max_size) ==
  ChainTextFrom(regional_bitstreams, max_size, 0)

\* every text in which each indeterminate character is '0' or '1'
RECURSIVE DigitOutcomes(_)
DigitOutcomes(text) ==
  IF text = <<>> THEN {<<>>}
  ELSE {<<c>> \o rest :
          c \in (IF Head(text) = Indeterminate THEN {"0", "1"}
                 ELSE {Head(text)}),
          rest \in DigitOutcomes(Tail(text))}

HasIndeterminate(text) == \E i \in 1..Len(text) : text[i] = Indeterminate

\* the lines completed, and so flushed, before the first out-of-range read
FlushedBeforeFault(text) ==
  LET fault == CHOOSE i \in 1..Len(text) :
                 text[i] = Indeterminate
                 /\ \A j \in 1..(i - 1) : text[j] # Indeterminate
      ends == {i \in 1..(fault - 1) : text[i] = "\n"}
  IN IF ends = {} THEN <<>>
     ELSE SubSeq(text, 1, CHOOSE i \in ends : \A j \in ends : j <= i)

\* what the build can do with the text: write it, every out-of-range read
\* yielding some digit, or be killed at the first out-of-range read (a read
\* through an invalid pointer), with only the lines before it written
Outcomes(text) ==
  {[killed |-> FALSE, text |-> t] : t \in DigitOutcomes(text)}
  \cup (IF HasIndeterminate(text)
        THEN {[killed |-> TRUE, text |-> FlushedBeforeFault(text)]}
        ELSE {})

RECURSIVE DataText(_, _)
DataText(din, n) ==
  IF n = 0 THEN <<>> ELSE Append(DataText(din, n - 1), BoolDigit(din[n]))

\* the memory-bank line with the word-line address written first
MemoryBankLineText_WLFirst(addr_din_pair) ==
  addr_din_pair.key[2] \o <<" ">> \o addr_din_pair.key[1] \o <<" ">>
  \o DataText(addr_din_pair.din, Len(addr_din_pair.din)) \o <<"\n">>

\* one line of the memory-bank format: BL, WL, the data vector
MemoryBankLineText(addr_din_pair) ==
  addr_din_pair.key[1] \o <<" ">> \o addr_din_pair.key[2] \o <<" ">>
  \o DataText(addr_din_pair.din, Len(addr_din_pair.din)) \o <<"\n">>

\* one line of the frame-based format: the address, the data vector
FrameLineText(addr_din_pair) ==
  addr_din_pair.key \o <<" ">>
  \o DataText(addr_din_pair.din, Len(addr_din_pair.din)) \o <<"\n">>

RECURSIVE MemoryBankTextFrom(_, _)
MemoryBankTextFrom(groups, n) ==
  IF n > Len(groups) THEN <<>>
  ELSE MemoryBankLineText(groups[n]) \o MemoryBankTextFrom(groups, n + 1)

\* a (BL, WL) key precedes another in the lexicographic order of their text
KeyLess(a, b) ==
  LET ta == a[1] \o a[2]
      tb == b[1] \o b[2]
  IN \E i \in 1..Len(ta) :
       /\ ta[i] = "0"
       /\ tb[i] = "1"
       /\ \A j \in 1..(i - 1) : ta[j] = tb[j]

\* the loop visiting the groups in sorted key order, as over a sorted map
MemoryBankText_SortedKeys(fabric_bits_by_addr) ==
  LET all == {fabric_bits_by_addr[n] : n \in 1..Len(fabric_bits_by_addr)}
      sorted ==
        [n \in 1..Len(fabric_bits_by_addr) |->
           CHOOSE g \in all :
             Cardinality({h \in all : KeyLess(h.key, g.key)}) = n - 1]
  IN MemoryBankTextFrom(sorted, 1)

\* the loop over fabric_bits_by_addr, in the container's order
MemoryBankText(fabric_bits_by_addr) ==
  MemoryBankTextFrom(fabric_bits_by_addr, 1)

RECURSIVE FrameTextFrom(_, _)
FrameTextFrom(groups, n) ==
  IF n > Len(groups) THEN <<>>
  ELSE FrameLineText(groups[n]) \o FrameTextFrom(groups, n + 1)

\* the loop over fabric_bits_by_addr, in the container's order
FrameText(fabric_bits_by_addr) == FrameTextFrom(fabric_bits_by_addr, 1)

\* the switch with the frame-based arm calling the memory-bank encoder
EncoderFor_FrameMisrouted(type) ==
  CASE type = "CONFIG_MEM_STANDALONE" -> "flatten"
    [] type = "CONFIG_MEM_SCAN_CHAIN" -> "config_chain"
    [] type = "CONFIG_MEM_MEMORY_BANK" -> "memory_bank"
    [] type = "CONFIG_MEM_FRAME_BASED" -> "memory_bank"
    [] OTHER -> "none"

\* the switch with a default arm that falls back to the flatten encoder
EncoderFor_DefaultFlatten(type) ==
  CASE type = "CONFIG_MEM_SCAN_CHAIN" -> "config_chain"
    [] type = "CONFIG_MEM_MEMORY_BANK" -> "memory_bank"
    [] type = "CONFIG_MEM_FRAME_BASED" -> "frame_based"
    [] OTHER -> "flatten"

\* the switch of write_fabric_bitstream_to_text_file: the encoder a
\* protocol type is routed to, "none" for the default arm
EncoderFor(type) ==
  CASE type = "CONFIG_MEM_STANDALONE" -> "flatten"
    [] type = "CONFIG_MEM_SCAN_CHAIN" -> "config_chain"
    [] type = "CONFIG_MEM_MEMORY_BANK" -> "memory_bank"
    [] type = "CONFIG_MEM_FRAME_BASED" -> "frame_based"
    [] OTHER -> "none"

(* ------------------------------ the call ------------------------------ *)

Init ==
  /\ config_type \in ProtocolTypes
  /\ num_regions \in (IF config_type = "CONFIG_MEM_SCAN_CHAIN"
                      THEN 1..MaxRegions ELSE {1})
  /\ bits \in BitSources(config_type, num_regions)
  /\ fname \in FileNames
  /\ file \in PreviousContents
  /\ fp_open = FALSE
  /\ fp_good = TRUE
  /\ buf = <<>>
  /\ pc = "check_name"
  /\ status = 0
  /\ enc_status = 0
  /\ ibit = 0
  /\ encoders_run = <<>>
  /\ errors = <<>>
  /\ oob = FALSE

\* the std::endl flushes of the pending characters, of which the device
\* takes the first n: they reach the destination; when the device refused
\* the rest the stream is bad and keeps the refused line.  A stream that was
\* not usable does nothing
FlushTo(pending, n) ==
  /\ file' = file \o SubSeq(pending, 1, n)
  /\ buf' = IF valid_file_stream(fp_open, fp_good)
            THEN Retained(pending, n) ELSE buf
  /\ fp_good' = (fp_good /\ n = Len(pending))

\* the empty-name check returning failure on an empty name
CheckName_Returns ==
  /\ pc = "check_name"
  /\ IF fname = ""
     THEN /\ errors' = Append(errors, "empty_file_name")
          /\ status' = 1
          /\ pc' = "done"
     ELSE /\ pc' = "open"
          /\ UNCHANGED <<errors, status>>
  /\ UNCHANGED <<inputs, file, fp_open, fp_good, buf, enc_status, ibit,
                 encoders_run, oob>>

\* the empty-name check: an error is logged and the call goes on
CheckName ==
  /\ pc = "check_name"
  /\ errors' = IF fname = "" THEN Append(errors, "empty_file_name") ELSE errors
  /\ pc' = "open"
  /\ UNCHANGED <<inputs, file, fp_open, fp_good, buf, status, enc_status, ibit,
                 encoders_run, oob>>

\* fp.open(fname, out | trunc): the file system decides whether a named
\* destination can be created; a file with the empty name cannot be.  A
\* successful open truncates, a failed one leaves the destination as it was
\* and the stream closed with failbit set
OpenFile ==
  /\ pc = "open"
  /\ \E creatable \in BOOLEAN :
       LET opened == creatable /\ fname # ""
       IN /\ fp_open' = opened
          /\ fp_good' = opened
          /\ file' = IF opened THEN <<>> ELSE file
  /\ pc' = "check_stream"
  /\ UNCHANGED <<inputs, buf, status, enc_status, ibit, encoders_run, errors,
                 oob>>

\* the call going on to the switch without checking the stream
CheckStream_Ignored ==
  /\ pc = "check_stream"
  /\ pc' = "switch"
  /\ UNCHANGED <<inputs, file, fp_open, fp_good, buf, status, enc_status, ibit,
                 encoders_run, errors, oob>>

\* check_file_stream(fname.c_str(), fp)
CheckStream ==
  /\ pc = "check_stream"
  /\ pc' = IF check_file_stream(fp_open, fp_good) THEN "switch" ELSE "aborted"
  /\ UNCHANGED <<inputs, file, fp_open, fp_good, buf, status, enc_status, ibit,
                 encoders_run, errors, oob>>

\* int status = 0; switch (config_protocol.type()): the call of the encoder,
\* or the default arm
Switch ==
  /\ pc = "switch"
  /\ LET encoder == EncoderFor(config_type)
     IN IF encoder = "none"
        THEN /\ errors' = Append(errors, "invalid_protocol_type")
             /\ status' = 1
             /\ pc' = "end"
             /\ UNCHANGED encoders_run
        ELSE /\ encoders_run' = Append(encoders_run, encoder)
             /\ status' = 0
             /\ pc' = encoder
             /\ UNCHANGED errors
  /\ enc_status' = 0
  /\ ibit' = 0
  /\ UNCHANGED <<inputs, file, fp_open, fp_good, buf, oob>>

\* one pass of the loop of write_flatten_fabric_bitstream_to_text_file: the
\* bit's text goes to the stream buffer and what the per-bit writer logged
\* to the log; a status of 1 returns at once
FlattenBit ==
  /\ pc = "flatten"
  /\ ibit < Len(bits)
  /\ LET r == write_fabric_config_bit_to_text_file(fp_open, fp_good,
                                                   bits[ibit + 1], config_type)
     IN /\ enc_status' = r.status
        /\ buf' = Put(buf, fp_open, fp_good, r.text)
        /\ errors' = errors \o r.logged
        /\ IF r.status = 1
           THEN /\ status' = r.status
                /\ pc' = "end"
                /\ UNCHANGED ibit
           ELSE /\ ibit' = ibit + 1
                /\ UNCHANGED <<status, pc>>
  /\ UNCHANGED <<inputs, file, fp_open, fp_good, encoders_run, oob>>

\* the loop is over: return status
FlattenReturn ==
  /\ pc = "flatten"
  /\ ibit = Len(bits)
  /\ status' = enc_status
  /\ pc' = "end"
  /\ UNCHANGED <<inputs, file, fp_open, fp_good, buf, enc_status, ibit,
                 encoders_run, errors, oob>>

\* write_config_chain_fabric_bitstream_to_text_file.  Every line ends with
\* std::endl, so every line is flushed: the destination takes a prefix of
\* the text, all of it unless the device refuses a byte.  An out-of-range
\* read may kill the process instead
ConfigChainEncode ==
  /\ pc = "config_chain"
  /\ LET regional_bitstream_max_size ==
           find_fabric_regional_bitstream_max_size(bits, num_regions)
         regional_bitstreams ==
           build_config_chain_fabric_bitstream_by_region(bits, num_regions)
         text == ChainText(regional_bitstreams, regional_bitstream_max_size)
     IN /\ \E outcome \in Outcomes(text) :
             /\ LET pending == Put(buf, fp_open, fp_good, outcome.text)
                IN \E n \in Accepted(fp_open, fp_good, pending) :
                     FlushTo(pending, n)
             /\ pc' = IF outcome.killed THEN "killed" ELSE "end"
        /\ oob' = (oob \/ HasIndeterminate(text))
  /\ status' = 0
  /\ UNCHANGED <<inputs, fp_open, enc_status, ibit, encoders_run, errors>>

\* write_memory_bank_fabric_bitstream_to_text_file: every line is flushed by
\* its std::endl
MemoryBankEncode ==
  /\ pc = "memory_bank"
  /\ LET fabric_bits_by_addr ==
           build_memory_bank_fabric_bitstream_by_address(bits)
         text == MemoryBankText(fabric_bits_by_addr)
         pending == Put(buf, fp_open, fp_good, text)
     IN \E n \in Accepted(fp_open, fp_good, pending) : FlushTo(pending, n)
  /\ status' = 0
  /\ pc' = "end"
  /\ UNCHANGED <<inputs, fp_open, enc_status, ibit, encoders_run, errors, oob>>

\* write_frame_based_fabric_bitstream_to_text_file: every line is flushed by
\* its std::endl
FrameBasedEncode ==
  /\ pc = "frame_based"
  /\ LET fabric_bits_by_addr ==
           build_frame_based_fabric_bitstream_by_address(bits)
         text == FrameText(fabric_bits_by_addr)
         pending == Put(buf, fp_open, fp_good, text)
     IN \E n \in Accepted(fp_open, fp_good, pending) : FlushTo(pending, n)
  /\ status' = 0
  /\ pc' = "end"
  /\ UNCHANGED <<inputs, fp_open, enc_status, ibit, encoders_run, errors, oob>>

\* the call closing the destination without the final std::endl
WriteEnd_Omitted ==
  /\ pc = "end"
  /\ pc' = "close"
  /\ UNCHANGED <<inputs, file, fp_open, fp_good, buf, status, enc_status,
                 ibit, encoders_run, errors, oob>>

\* fp << std::endl after the switch: the terminator, then a flush of all
\* that is buffered; a stream that is already bad keeps what it holds
WriteEnd ==
  /\ pc = "end"
  /\ LET pending == Put(buf, fp_open, fp_good, <<"\n">>)
     IN \E n \in Accepted(fp_open, fp_good, pending) : FlushTo(pending, n)
  /\ pc' = "close"
  /\ UNCHANGED <<inputs, fp_open, status, enc_status, ibit, encoders_run,
                 errors, oob>>

\* fp.close(): the text the stream still holds is offered to the device
\* whether or not the stream is good, and the device takes a prefix of it;
\* the stream is closed with nothing left in it; return status
CloseFile ==
  /\ pc = "close"
  /\ \E n \in (IF fp_open THEN 0..Len(buf) ELSE {0}) :
       /\ file' = file \o SubSeq(buf, 1, n)
       /\ fp_good' = (fp_good /\ n = Len(buf))
  /\ buf' = <<>>
  /\ fp_open' = FALSE
  /\ pc' = "done"
  /\ UNCHANGED <<inputs, status, enc_status, ibit, encoders_run, errors, oob>>

Next ==
  \/ CheckName
  \/ OpenFile
  \/ CheckStream
  \/ Switch
  \/ FlattenBit
  \/ FlattenReturn
  \/ ConfigChainEncode
  \/ MemoryBankEncode
  \/ FrameBasedEncode
  \/ WriteEnd
  \/ CloseFile

Spec == Init /\ [][Next]_vars

(* ------------------- reading the destination's text ------------------- *)

\* the position of the first line terminator of f, 0 when there is none
FirstNewline(f) ==
  IF \E i \in 1..Len(f) : f[i] = "\n"
  THEN CHOOSE i \in 1..Len(f) :
         f[i] = "\n" /\ \A j \in 1..(i - 1) : f[j] # "\n"
  ELSE 0

\* the lines of f without their terminators; text after the last terminator
\* counts as a last line
RECURSIVE LinesOf(_)
LinesOf(f) ==
  IF f = <<>> THEN <<>>
  ELSE LET n == FirstNewline(f)
       IN IF n = 0 THEN <<f>>
          ELSE <<SubSeq(f, 1, n - 1)>> \o LinesOf(SubSeq(f, n + 1, Len(f)))

\* how many times the character c occurs in f
Count(f, c) == Cardinality({i \in 1..Len(f) : f[i] = c})

HasPrefix(line, prefix) ==
  Len(prefix) <= Len(line) /\ SubSeq(line, 1, Len(prefix)) = prefix

EncoderPcs == {"flatten", "config_chain", "memory_bank", "frame_based"}

\* the encoder has returned and the device has refused none of its writes
EncoderWrote == pc = "end" /\ fp_good

\* the values of a sequence of bits
ValuesOf(bs) == [i \in 1..Len(bs) |-> bs[i].value]

\* the length of the longest region, straight from the region tags
LongestRegion ==
  CHOOSE m \in 0..Len(bits) :
    /\ \A r \in 1..num_regions :
         Cardinality({i \in 1..Len(bits) : bits[i].region = r}) <= m
    /\ \E r \in 1..num_regions :
         Cardinality({i \in 1..Len(bits) : bits[i].region = r}) = m

\* the address key of a bit under the protocol of the call
KeyOf(bit) ==
  IF config_type = "CONFIG_MEM_MEMORY_BANK" THEN <<bit.bl, bit.wl>>
  ELSE bit.addr

Keys == {KeyOf(bits[i]) : i \in 1..Len(bits)}

\* a key as it starts its line: each component followed by one space
KeyText(key) ==
  IF config_type = "CONFIG_MEM_MEMORY_BANK"
  THEN key[1] \o <<" ">> \o key[2] \o <<" ">>
  ELSE key \o <<" ">>

\* the digits of the bits carrying the key, in source order
KeyData(key) ==
  LET own == SelectSeq(bits, LAMBDA b : KeyOf(b) = key)
  IN [i \in 1..Len(own) |-> IF own[i].value THEN "1" ELSE "0"]

FirstSeen(key) == CHOOSE i \in 1..Len(bits) :
  KeyOf(bits[i]) = key /\ \A j \in 1..(i - 1) : KeyOf(bits[j]) # key

(* ------------------------------ the claims ---------------------------- *)

\* C1: for each of the four protocol kinds exactly one encoder runs, the one
\* matching the kind (none before the switch), the call's status is that
\* encoder's status unchanged, and the call returns 0 when every write
\* succeeded and 1 only for an unrecognized kind or a bit that could not be
\* written.
C1_OneMatchingEncoder ==
  /\ config_type \in ValidTypes =>
       LET matching ==
             CASE config_type = "CONFIG_MEM_STANDALONE" -> "flatten"
               [] config_type = "CONFIG_MEM_SCAN_CHAIN" -> "config_chain"
               [] config_type = "CONFIG_MEM_MEMORY_BANK" -> "memory_bank"
               [] config_type = "CONFIG_MEM_FRAME_BASED" -> "frame_based"
       IN /\ pc \in EncoderPcs => pc = matching
          /\ pc \in EncoderPcs \cup {"end", "close", "done"} =>
               encoders_run = <<matching>>
          /\ pc \in {"check_name", "open", "check_stream", "switch",
                     "aborted"} =>
               encoders_run = <<>>
          /\ pc \in {"end", "close", "done"} =>
               status = (IF matching = "flatten" THEN enc_status ELSE 0)
  /\ pc = "done" =>
       /\ status \in {0, 1}
       /\ fp_good /\ config_type \in ValidTypes => status = 0
       /\ status = 1 => config_type \notin ValidTypes \/ ~fp_good

\* a frame-based call has returned 0 after running the frame encoder alone
C1_Witness ==
  /\ pc = "done"
  /\ config_type = "CONFIG_MEM_FRAME_BASED"
  /\ Len(bits) = 2
  /\ encoders_run = <<"frame_based">>
  /\ status = 0

\* C2: with a protocol kind outside the four, no encoder is ever entered,
\* the call returns 1, and the destination it opened holds no bit digit and
\* no address character.
C2_UnrecognizedKind ==
  config_type \notin ValidTypes =>
    /\ encoders_run = <<>>
    /\ pc \notin EncoderPcs
    /\ pc \notin {"check_name", "open", "check_stream", "aborted"} =>
         \A i \in 1..Len(file \o buf) : (file \o buf)[i] \notin {"0", "1", " "}
    /\ pc \in {"end", "close", "done"} => status = 1
    /\ pc = "done" =>
         /\ errors # <<>>
         /\ errors[Len(errors)] = "invalid_protocol_type"

\* a call with an unrecognized kind and a non-empty bit source has returned
C2_Witness ==
  /\ pc = "done"
  /\ config_type \notin ValidTypes
  /\ Len(bits) = 3
  /\ status = 1
  /\ file = <<"\n">>

\* C3: the chain-region encoder emits one line per chain depth (as many as
\* the longest region is long, not one per bit), every line holds exactly one
\* character per region and no separator, character j of line i is element i
\* of the padded bitstream of region j, and no regional bitstream is ever
\* read at or beyond its length.
C3_ChainColumnMajor ==
  /\ ~oob
  /\ EncoderWrote /\ config_type = "CONFIG_MEM_SCAN_CHAIN" =>
       LET lines == LinesOf(file)
           padded ==
             build_config_chain_fabric_bitstream_by_region(bits, num_regions)
       IN /\ Len(lines) = LongestRegion
          /\ Count(file, "\n") = LongestRegion
          /\ Len(file) = LongestRegion * (num_regions + 1)
          /\ \A i \in 1..Len(lines) :
               /\ Len(lines[i]) = num_regions
               /\ \A j \in 1..num_regions :
                    /\ i <= Len(padded[j])
                    /\ lines[i][j] = (IF padded[j][i] THEN "1" ELSE "0")

\* two regions of lengths 3 and 2 have been written as three lines
C3_Witness ==
  /\ EncoderWrote
  /\ config_type = "CONFIG_MEM_SCAN_CHAIN"
  /\ num_regions = 2
  /\ Len(region_bits(bits, 1)) = 3
  /\ Len(region_bits(bits, 2)) = 2
  /\ Len(LinesOf(file)) = 3

\* C8: a region shorter than the longest one is padded at its tail with 0:
\* its own bits are its column in the first lines, in source order, and its
\* column in the remaining lines is '0'.
C8_TailPadding ==
  EncoderWrote /\ config_type = "CONFIG_MEM_SCAN_CHAIN" =>
    LET lines == LinesOf(file)
    IN \A r \in 1..num_regions :
         LET own == region_bits(bits, r)
         IN \A i \in 1..LongestRegion :
              /\ i <= Len(lines)
              /\ r <= Len(lines[i])
              /\ lines[i][r] = (IF i <= Len(own)
                                THEN (IF own[i].value THEN "1" ELSE "0")
                                ELSE "0")

\* regions A = [1,0,1] and B = [0,1] have been written as 10, 01, 10
C8_Witness ==
  /\ EncoderWrote
  /\ config_type = "CONFIG_MEM_SCAN_CHAIN"
  /\ num_regions = 2
  /\ ValuesOf(region_bits(bits, 1)) = <<TRUE, FALSE, TRUE>>
  /\ ValuesOf(region_bits(bits, 2)) = <<FALSE, TRUE>>
  /\ file = <<"1", "0", "\n", "0", "1", "\n", "1", "0", "\n">>

\* C6: the flatten encoder writes to the stream one '0'/'1' digit per source
\* bit, in source order, and nothing else, while it runs and when it has
\* returned; a destination that took every write of the call holds that one
\* unbroken digit string before the final terminator.
C6_FlattenDigits ==
  config_type = "CONFIG_MEM_STANDALONE" =>
    /\ pc \in {"flatten", "end"} =>
         /\ fp_good
         /\ Len(file \o buf) = ibit
         /\ pc = "end" => Len(file \o buf) = Len(bits)
         /\ \A i \in 1..Len(file \o buf) :
              (file \o buf)[i] = (IF bits[i].value THEN "1" ELSE "0")
    /\ pc \in {"close", "done"} /\ fp_good =>
         /\ Len(file) = Len(bits) + 1
         /\ \A i \in 1..Len(bits) :
              file[i] = (IF bits[i].value THEN "1" ELSE "0")

\* the flatten encoder has returned with the bits [1,0,1,1] written to the
\* stream as 1011
C6_Witness ==
  /\ config_type = "CONFIG_MEM_STANDALONE"
  /\ EncoderWrote
  /\ ValuesOf(bits) = <<TRUE, FALSE, TRUE, TRUE>>
  /\ file \o buf = <<"1", "0", "1", "1">>

\* C4: the address-keyed encoders emit one line per distinct address key;
\* a line is the key's components (BL before WL), each followed by one space,
\* then the values of exactly the bits carrying the key, in source order,
\* with no separator; over all lines every source bit appears exactly once.
C4_OneLinePerKey ==
  EncoderWrote
  /\ config_type \in {"CONFIG_MEM_MEMORY_BANK", "CONFIG_MEM_FRAME_BASED"} =>
    LET lines == LinesOf(file)
    IN /\ Len(lines) = Cardinality(Keys)
       /\ Count(file, "\n") = Cardinality(Keys)
       /\ \A key \in Keys :
            Cardinality({n \in 1..Len(lines) :
                           lines[n] = KeyText(key) \o KeyData(key)}) = 1
       /\ Count(file, " ") =
            Cardinality(Keys)
            * (IF config_type = "CONFIG_MEM_MEMORY_BANK" THEN 2 ELSE 1)
       /\ \A key \in Keys :
            Len(file) =
              Len(bits) + Cardinality(Keys) * (Len(KeyText(key)) + 1)

\* two memory-bank bits sharing (BL 01, WL 10), values 1 then 0, and a third
\* bit elsewhere have been written as two lines, one of them 01 10 10
C4_Witness ==
  /\ EncoderWrote
  /\ config_type = "CONFIG_MEM_MEMORY_BANK"
  /\ Len(bits) = 3
  /\ Cardinality(Keys) = 2
  /\ \E n \in 1..Len(LinesOf(file)) :
       LinesOf(file)[n] = <<"0", "1", " ", "1", "0", " ", "1", "0">>

\* C5: the lines of the address-keyed formats follow the order in which
\* their keys are first met in the source: a key first met earlier has its
\* line earlier.
C5_FirstSeenOrder ==
  EncoderWrote
  /\ config_type \in {"CONFIG_MEM_MEMORY_BANK", "CONFIG_MEM_FRAME_BASED"} =>
    LET lines == LinesOf(file)
    IN \A a \in Keys, b \in Keys :
         FirstSeen(a) < FirstSeen(b) =>
           \E m \in 1..Len(lines), n \in 1..Len(lines) :
             /\ m < n
             /\ HasPrefix(lines[m], KeyText(a))
             /\ HasPrefix(lines[n], KeyText(b))

\* a memory-bank source that meets BL 10 before BL 01 has been written with
\* the line of BL 10 first
C5_Witness ==
  /\ EncoderWrote
  /\ config_type = "CONFIG_MEM_MEMORY_BANK"
  /\ Len(bits) = 3
  /\ bits[1].bl = <<"1", "0">>
  /\ bits[2].bl = <<"0", "1">>
  /\ bits[3].bl = <<"1", "0">>
  /\ Len(LinesOf(file)) >= 2
  /\ HasPrefix(LinesOf(file)[1], <<"1", "0", " ">>)
  /\ HasPrefix(LinesOf(file)[2], <<"0", "1", " ">>)

\* the number of lines the encoder of the call emits
EncoderLines ==
  CASE config_type = "CONFIG_MEM_SCAN_CHAIN" -> LongestRegion
    [] config_type \in {"CONFIG_MEM_MEMORY_BANK", "CONFIG_MEM_FRAME_BASED"} ->
         Cardinality(Keys)
    [] OTHER -> 0

\* C7: the final line terminator is put on the stream once per call, after
\* everything the encoder wrote and before the destination is closed, and
\* the destination never holds more terminators than the encoder's lines and
\* this one; the close writes nothing unless the device had refused a flush,
\* and nothing is written after the close; a destination that took every
\* write ends with the terminator (bits [1,0,1,1] give 1011 and the
\* terminator).
C7_TrailingLine ==
  /\ [][pc' = "end" => pc \in EncoderPcs \cup {"switch"}]_vars
  /\ [][pc = "end" =>
          (pc' = "close" /\ fp_open
           /\ (IF fp_good
               THEN (/\ HasPrefix(file \o buf \o <<"\n">>, file')
                     /\ fp_good' = (file' = file \o buf \o <<"\n">>)
                     /\ buf' = (IF fp_good' THEN <<>> ELSE buf \o <<"\n">>))
               ELSE (file' = file /\ buf' = buf /\ ~fp_good')))]_vars
  /\ [][pc = "close" =>
          (/\ HasPrefix(file \o buf, file')
           /\ fp_good => (buf = <<>> /\ file' = file))]_vars
  /\ [][pc = "done" => file' = file]_vars
  /\ [][pc' = "done" => pc = "close" /\ ~fp_open' /\ buf' = <<>>]_vars
  /\ [](pc \in {"end", "close", "done"} =>
          Count(file \o buf, "\n") <= EncoderLines + 1)
  /\ [](pc \in {"close", "done"} /\ fp_good =>
          /\ file # <<>>
          /\ file[Len(file)] = "\n"
          /\ Count(file, "\n") = EncoderLines + 1)
  /\ [](/\ pc = "done"
        /\ fp_good
        /\ config_type = "CONFIG_MEM_STANDALONE"
        /\ ValuesOf(bits) = <<TRUE, FALSE, TRUE, TRUE>>
        => file = <<"1", "0", "1", "1", "\n">>)

\* the standalone call on bits [1,0,1,1] has returned with 1011 and the
\* terminator in the closed destination
C7_Witness ==
  /\ pc = "done"
  /\ ~fp_open
  /\ fp_good
  /\ config_type = "CONFIG_MEM_STANDALONE"
  /\ ValuesOf(bits) = <<TRUE, FALSE, TRUE, TRUE>>
  /\ file = <<"1", "0", "1", "1", "\n">>

\* C9: when the destination could not be opened the call ends at the
\* stream check, whatever the protocol kind: the destination is left as it
\* was, no encoder runs, and the call never returns a status.
C9_OpenFailureAborts ==
  /\ [][pc = "open" /\ ~fp_open' => file' = file]_vars
  /\ [][pc = "check_stream" /\ ~fp_open => pc' = "aborted" /\ file' = file]_vars
  /\ [][pc = "aborted" => pc' = "aborted" /\ file' = file]_vars
  /\ [](pc = "aborted" => ~fp_open /\ encoders_run = <<>> /\ status = 0)
  /\ [](pc \in EncoderPcs \cup {"switch", "end", "close"} => fp_open)
  /\ [][pc' = "done" => fp_open]_vars

\* a scan-chain call to a named destination that could not be opened has
\* been aborted with the destination's previous content in place
C9_Witness ==
  /\ pc = "aborted"
  /\ fname # ""
  /\ config_type = "CONFIG_MEM_SCAN_CHAIN"
  /\ Len(bits) = 2
  /\ file = <<"1", "\n">>

\* the status the dispatch of the call produces
DispatchStatus ==
  CASE config_type = "CONFIG_MEM_STANDALONE" -> enc_status
    [] config_type \in ValidTypes -> 0
    [] OTHER -> 1

\* C10 as claimed: after the report of an empty name the call still goes on
\* to open the destination, to dispatch on the protocol kind and to return
\* the status of the dispatch.
C10_ProceedsToDispatch ==
  /\ [][fname = "" /\ pc = "check_name" => pc' = "open"]_vars
  /\ [][fname = "" /\ pc = "open" => pc' = "check_stream"]_vars
  /\ [][fname = "" /\ pc = "check_stream" => pc' = "switch"]_vars
  /\ [](fname = "" /\ pc = "done" => status = DispatchStatus)

\* C10: the empty-name check logs an error for an empty name and nothing
\* else: it never ends the call, sets no status and writes nothing, and the
\* call goes on to open the destination.  The empty name cannot be opened,
\* so the call is then ended by the stream check: it leaves the destination
\* as it was, never dispatches and never returns a status.  A call that
\* returns has a non-empty name and returns the status of its dispatch.
C10_EmptyNameNotFatal ==
  /\ [][pc = "check_name" =>
          (pc' = "open" /\ status' = status /\ file' = file
           /\ errors' = (IF fname = "" THEN <<"empty_file_name">>
                         ELSE <<>>))]_vars
  /\ [](pc # "check_name" /\ fname = "" =>
          errors = <<"empty_file_name">>)
  /\ [][fname = "" /\ pc = "open" =>
          (pc' = "check_stream" /\ ~fp_open' /\ file' = file)]_vars
  /\ [][fname = "" /\ pc = "check_stream" =>
          (pc' = "aborted" /\ file' = file)]_vars
  /\ [](fname = "" =>
          /\ pc \in {"check_name", "open", "check_stream", "aborted"}
          /\ encoders_run = <<>>
          /\ status = 0
          /\ buf = <<>>)
  /\ [](pc = "done" => fname # "" /\ status = DispatchStatus)

\* the empty name has been reported, the call has gone on to open the
\* destination, and the stream check has ended the call of a frame-based
\* device before any dispatch
C10_Witness ==
  /\ fname = ""
  /\ errors = <<"empty_file_name">>
  /\ pc = "aborted"
  /\ config_type = "CONFIG_MEM_FRAME_BASED"
  /\ Len(bits) = 2
  /\ encoders_run = <<>>
  /\ file = <<"1", "\n">>

====
